---------------------------- MODULE Spec2Model ----------------------------
(***************************************************************************)
(* Model of app.py (Customer Call Analyzer): the local heuristic analyser, *)
(* the tolerant parsing of the model response, the Analyze handler's       *)
(* dispatch between the two, and the append to call_analysis.csv.          *)
(*                                                                         *)
(* A text is a sequence of one-character strings, so that trimming,        *)
(* lower-casing, substring counting, regular-expression matching and JSON  *)
(* parsing are computed character by character, the way Python does.       *)
(***************************************************************************)
EXTENDS Integers, Sequences, FiniteSets, TLC

VARIABLES
    GROQ_AVAILABLE, \* app.py:14-19, whether `from groq import Groq` succeeded
    GROQ_API_KEY,   \* app.py:11, os.getenv: "None", the empty text or a key
    pc,             \* per session: where its run of the Analyze handler stands
    run,            \* per session: the locals of the current run of the handler
    csv,            \* call_analysis.csv: whether it exists, and its rows
    analyses,       \* ghost: the analyses of non-blank transcripts, in invocation order
    clicks,         \* ghost: number of Analyze invocations so far
    arg,            \* argument of the function applied (function specifications)
    ret,            \* its result
    phase           \* "main", or "in"/"out" in the function specifications

vars == <<GROQ_AVAILABLE, GROQ_API_KEY, pc, run, csv, analyses, clicks, arg, ret, phase>>

-----------------------------------------------------------------------------
(* Bounds of the model.                                                    *)

\* Total number of Analyze invocations, over all sessions.
MaxInvocations == 2

\* Number of pieces concatenated into a transcript given to local_fallback.
MaxPieces == 3

-----------------------------------------------------------------------------
(* Python str helpers.                                                     *)

\* Characters Python's str.strip, str.split and the regex class \s treat as
\* whitespace, among the characters the model's texts use.
IsSpace(c) == c \in {" ", "\n"}

RECURSIVE LStrip(_)
LStrip(s) == IF s # <<>> /\ IsSpace(Head(s)) THEN LStrip(Tail(s)) ELSE s

RECURSIVE RStrip(_)
RStrip(s) ==
    IF s # <<>> /\ IsSpace(s[Len(s)]) THEN RStrip(SubSeq(s, 1, Len(s) - 1)) ELSE s

\* str.strip()
Strip(s) == RStrip(LStrip(s))

UpperToLower ==
    [c \in {"A","B","C","D","E","F","G","H","I","J","K","L","M",
            "N","O","P","Q","R","S","T","U","V","W","X","Y","Z"} |->
        CASE c = "A" -> "a" [] c = "B" -> "b" [] c = "C" -> "c" [] c = "D" -> "d"
          [] c = "E" -> "e" [] c = "F" -> "f" [] c = "G" -> "g" [] c = "H" -> "h"
          [] c = "I" -> "i" [] c = "J" -> "j" [] c = "K" -> "k" [] c = "L" -> "l"
          [] c = "M" -> "m" [] c = "N" -> "n" [] c = "O" -> "o" [] c = "P" -> "p"
          [] c = "Q" -> "q" [] c = "R" -> "r" [] c = "S" -> "s" [] c = "T" -> "t"
          [] c = "U" -> "u" [] c = "V" -> "v" [] c = "W" -> "w" [] c = "X" -> "x"
          [] c = "Y" -> "y" [] c = "Z" -> "z"]

\* str.lower()
Lower(s) ==
    [i \in 1..Len(s) |-> IF s[i] \in DOMAIN UpperToLower THEN UpperToLower[s[i]] ELSE s[i]]

\* Whether w occurs in s at index i.
MatchAt(s, w, i) ==
    /\ i >= 1
    /\ i + Len(w) - 1 <= Len(s)
    /\ \A k \in 1..Len(w) : s[i + k - 1] = w[k]

\* str.count(w): the non-overlapping occurrences of w, scanning from the left.
RECURSIVE CountFrom(_, _, _)
CountFrom(t, w, i) ==
    IF i + Len(w) - 1 > Len(t) THEN 0
    ELSE IF MatchAt(t, w, i) THEN 1 + CountFrom(t, w, i + Len(w))
    ELSE CountFrom(t, w, i + 1)

Count(t, w) == CountFrom(t, w, 1)

\* sum(t.count(w) for w in words)
RECURSIVE SumCounts(_, _)
SumCounts(t, words) ==
    IF words = <<>> THEN 0 ELSE Count(t, Head(words)) + SumCounts(t, Tail(words))

\* First index >= i of s that is not whitespace (Len(s) + 1 when there is none).
RECURSIVE SkipSpace(_, _)
SkipSpace(s, i) == IF i <= Len(s) /\ IsSpace(s[i]) THEN SkipSpace(s, i + 1) ELSE i

\* First index >= i of s that is whitespace (Len(s) + 1 when there is none).
RECURSIVE SkipWord(_, _)
SkipWord(s, i) == IF i <= Len(s) /\ ~IsSpace(s[i]) THEN SkipWord(s, i + 1) ELSE i

\* str.split(): the maximal runs of non-whitespace characters.
RECURSIVE SplitFrom(_, _)
SplitFrom(s, i) ==
    LET b == SkipSpace(s, i)
        e == SkipWord(s, b)
    IN  IF b > Len(s) THEN <<>> ELSE <<SubSeq(s, b, e - 1)>> \o SplitFrom(s, e)

PySplit(s) == SplitFrom(s, 1)

\* " ".join(words)
RECURSIVE JoinSpace(_)
JoinSpace(words) ==
    IF words = <<>> THEN <<>>
    ELSE IF Len(words) = 1 THEN words[1]
    ELSE words[1] \o <<" ">> \o JoinSpace(Tail(words))

\* words[:n]
Slice(words, n) == SubSeq(words, 1, IF Len(words) < n THEN Len(words) ELSE n)

\* re.split(r'[.?!]\s+', s): the pieces of s between the matches of a
\* terminator followed by a maximal run of whitespace; i scans, b is where
\* the current piece began.
RECURSIVE ReSplitFrom(_, _, _)
ReSplitFrom(s, b, i) ==
    IF i > Len(s) THEN <<SubSeq(s, b, Len(s))>>
    ELSE IF s[i] \in {".", "?", "!"} /\ i + 1 <= Len(s) /\ IsSpace(s[i + 1])
         THEN LET j == SkipSpace(s, i + 1)
              IN  <<SubSeq(s, b, i - 1)>> \o ReSplitFrom(s, j, j)
         ELSE ReSplitFrom(s, b, i + 1)

ReSplit(s) == ReSplitFrom(s, 1, 1)

-----------------------------------------------------------------------------
(* local_fallback, app.py:31-42.                                           *)

Positive == <<"P","o","s","i","t","i","v","e">>
Negative == <<"N","e","g","a","t","i","v","e">>
Neutral  == <<"N","e","u","t","r","a","l">>
Unknown  == <<"U","n","k","n","o","w","n">>

\* app.py:39
NegativeTerms ==
    << <<"n","o","t">>, <<"f","a","i","l","e","d">>, <<"f","r","u","s","t","r","a","t">>, <<"a","n","g","r","y">>, <<"c","h","a","r","g","e","d">>,
       <<"r","e","f","u","n","d">>, <<"p","r","o","b","l","e","m">>, <<"i","s","s","u","e">>, <<"c","o","m","p","l","a","i","n">>, <<"d","e","l","a","y">> >>

\* Variant of PositiveTerms: "thanks" left out, so that a thanks counts once.
PositiveTerms_NoThanks ==
    << <<"t","h","a","n","k">>, <<"g","r","e","a","t">>, <<"h","a","p","p","y">>, <<"g","o","o","d">>, <<"s","a","t","i","s","f","i","e","d">> >>

\* app.py:40
PositiveTerms ==
    << <<"t","h","a","n","k">>, <<"t","h","a","n","k","s">>, <<"g","r","e","a","t">>, <<"h","a","p","p","y">>, <<"g","o","o","d">>, <<"s","a","t","i","s","f","i","e","d">> >>

\* app.py:35, the [:12] of the excerpt
ExcerptTokens == 12

Ellipsis == <<".",".",".">>

\* app.py:35
FallbackSummary(s) ==
    LET sentences == ReSplit(s)
    IN  IF sentences # <<>> THEN Strip(sentences[1])
        ELSE JoinSpace(Slice(PySplit(s), ExcerptTokens)) \o Ellipsis

\* Variant of FallbackSentiment: a tie gives Unknown.
FallbackSentiment_TieUnknown(s) ==
    LET t   == Lower(s)
        neg == SumCounts(t, NegativeTerms)
        pos == SumCounts(t, PositiveTerms)
    IN  IF neg > pos THEN Negative ELSE IF pos > neg THEN Positive ELSE Unknown

\* app.py:38-41
FallbackSentiment(s) ==
    LET t   == Lower(s)
        neg == SumCounts(t, NegativeTerms)
        pos == SumCounts(t, PositiveTerms)
    IN  IF neg > pos THEN Negative ELSE IF pos > neg THEN Positive ELSE Neutral

local_fallback(transcript) ==
    LET s == Strip(transcript)
    IN  [summary |-> FallbackSummary(s), sentiment |-> FallbackSentiment(s)]

-----------------------------------------------------------------------------
(* json.loads, as far as call_groq_for_json uses it (app.py:64, 70): the   *)
(* grammar of Python's json scanner over the characters of the model's     *)
(* texts (no backslash occurs in them).  Of a parsed value the handler     *)
(* only uses whether it is an object, and the values under the keys        *)
(* "summary" and "sentiment".                                              *)

AbsentField == [present |-> FALSE, isstr |-> FALSE, str |-> <<>>]

JsonFail ==
    [ok |-> FALSE, pos |-> 0, kind |-> "none", str |-> <<>>,
     summary |-> AbsentField, sentiment |-> AbsentField]

\* A parsed value of the given kind that ends just before index pos.
JsonValue(kind, pos, str) ==
    [ok |-> TRUE, pos |-> pos, kind |-> kind, str |-> str,
     summary |-> AbsentField, sentiment |-> AbsentField]

\* A parsed object that ends just before index pos, with its two members.
JsonObject(pos, sm, st) ==
    [ok |-> TRUE, pos |-> pos, kind |-> "obj", str |-> <<>>,
     summary |-> sm, sentiment |-> st]

\* What a member of an object holds: whether it is a string, and which.
FieldOf(v) == [present |-> TRUE, isstr |-> v.kind = "str", str |-> v.str]

Digits == {"0", "1", "2", "3", "4", "5", "6", "7", "8", "9"}

IsDigitAt(s, i) == i <= Len(s) /\ s[i] \in Digits

RECURSIVE DigitsEnd(_, _)
DigitsEnd(s, i) == IF IsDigitAt(s, i) THEN DigitsEnd(s, i + 1) ELSE i

\* json.scanner NUMBER_RE, (-?(?:0|[1-9]\d*))(\.\d+)?([eE][-+]?\d+)?, piece
\* by piece; each operator gives the index after its piece.
SignEnd(s, i) == IF i <= Len(s) /\ s[i] = "-" THEN i + 1 ELSE i

\* 0 when no integer part begins at a.
IntEnd(s, a) ==
    IF ~IsDigitAt(s, a) THEN 0
    ELSE IF s[a] = "0" THEN a + 1 ELSE DigitsEnd(s, a + 1)

FracEnd(s, b) ==
    IF b <= Len(s) /\ s[b] = "." /\ IsDigitAt(s, b + 1) THEN DigitsEnd(s, b + 1) ELSE b

ExpDigits(s, c) == IF c + 1 <= Len(s) /\ s[c + 1] \in {"+", "-"} THEN c + 2 ELSE c + 1

ExpEnd(s, c) ==
    IF c <= Len(s) /\ s[c] \in {"e", "E"} /\ IsDigitAt(s, ExpDigits(s, c))
    THEN DigitsEnd(s, ExpDigits(s, c)) ELSE c

NumberTail(s, b) == IF b = 0 THEN 0 ELSE ExpEnd(s, FracEnd(s, b))

\* The index after the match of NUMBER_RE at i, 0 when there is none.
NumberEnd(s, i) == NumberTail(s, IntEnd(s, SignEnd(s, i)))

\* Index of the first double quote at or after i (0 when there is none, or
\* when a control character comes first: strict mode rejects it).
RECURSIVE StringEnd(_, _)
StringEnd(s, i) ==
    IF i > Len(s) THEN 0
    ELSE IF s[i] = "\"" THEN i
    ELSE IF s[i] = "\n" THEN 0
    ELSE StringEnd(s, i + 1)

StringValue(s, i, e) ==
    IF e = 0 THEN JsonFail ELSE JsonValue("str", e + 1, SubSeq(s, i + 1, e - 1))

\* json.decoder scanstring, with s[i] the opening quote.
ParseString(s, i) == StringValue(s, i, StringEnd(s, i + 1))

\* The constants of json.scanner that are tried after a number.
ParseConstant(s, i) ==
    IF MatchAt(s, <<"N","a","N">>, i) THEN JsonValue("num", i + 3, <<>>)
    ELSE IF MatchAt(s, <<"I","n","f","i","n","i","t","y">>, i) THEN JsonValue("num", i + 8, <<>>)
    ELSE IF MatchAt(s, <<"-","I","n","f","i","n","i","t","y">>, i) THEN JsonValue("num", i + 9, <<>>)
    ELSE JsonFail

NumberOrConstant(s, i, e) == IF e # 0 THEN JsonValue("num", e, <<>>) ELSE ParseConstant(s, i)

RECURSIVE ParseValue(_, _)
RECURSIVE ParseMembers(_, _, _, _)
RECURSIVE AfterKey(_, _, _, _)
RECURSIVE AfterColon(_, _, _, _, _)
RECURSIVE AfterMember(_, _, _, _, _)
RECURSIVE MemberEnd(_, _, _, _)
RECURSIVE NextMember(_, _, _, _)
RECURSIVE ParseObject(_, _)
RECURSIVE ParseElements(_, _)
RECURSIVE AfterElement(_, _)
RECURSIVE ElementEnd(_, _)
RECURSIVE ParseArray(_, _)

\* json.decoder JSONObject, the loop over the members: s[i] is the opening
\* quote of a key; sm, st are the "summary" and "sentiment" members read so
\* far (a later member of the same key replaces an earlier one).
ParseMembers(s, i, sm, st) == AfterKey(s, ParseString(s, i), sm, st)

\* The key k is read: whitespace, then a colon.
AfterKey(s, k, sm, st) ==
    IF ~k.ok THEN JsonFail ELSE AfterColon(s, k.str, SkipSpace(s, k.pos), sm, st)

\* c is where the colon must be: whitespace, then the member's value.
AfterColon(s, key, c, sm, st) ==
    IF c > Len(s) \/ s[c] # ":" THEN JsonFail
    ELSE AfterMember(s, key, ParseValue(s, SkipSpace(s, c + 1)), sm, st)

\* The value v of member key is read.
AfterMember(s, key, v, sm, st) ==
    IF ~v.ok THEN JsonFail
    ELSE MemberEnd(s, SkipSpace(s, v.pos),
                   IF key = <<"s","u","m","m","a","r","y">> THEN FieldOf(v) ELSE sm,
                   IF key = <<"s","e","n","t","i","m","e","n","t">> THEN FieldOf(v) ELSE st)

\* e is where a closing brace or a comma must be.
MemberEnd(s, e, sm, st) ==
    IF e > Len(s) THEN JsonFail
    ELSE IF s[e] = "}" THEN JsonObject(e + 1, sm, st)
    ELSE IF s[e] = "," THEN NextMember(s, SkipSpace(s, e + 1), sm, st)
    ELSE JsonFail

\* After a comma the next key must begin at n.
NextMember(s, n, sm, st) ==
    IF n <= Len(s) /\ s[n] = "\"" THEN ParseMembers(s, n, sm, st) ELSE JsonFail

\* json.decoder JSONObject: n is the first index after the opening brace
\* and whitespace.
ParseObject(s, n) ==
    IF n > Len(s) THEN JsonFail
    ELSE IF s[n] = "}" THEN JsonObject(n + 1, AbsentField, AbsentField)
    ELSE IF s[n] = "\"" THEN ParseMembers(s, n, AbsentField, AbsentField)
    ELSE JsonFail

\* json.decoder JSONArray, the loop over the elements: an element must begin
\* at i.
ParseElements(s, i) == AfterElement(s, ParseValue(s, i))

AfterElement(s, v) == IF ~v.ok THEN JsonFail ELSE ElementEnd(s, SkipSpace(s, v.pos))

\* e is where a closing bracket or a comma must be.
ElementEnd(s, e) ==
    IF e > Len(s) THEN JsonFail
    ELSE IF s[e] = "]" THEN JsonValue("arr", e + 1, <<>>)
    ELSE IF s[e] = "," THEN ParseElements(s, SkipSpace(s, e + 1))
    ELSE JsonFail

\* json.decoder JSONArray: n is the first index after the opening bracket
\* and whitespace.
ParseArray(s, n) ==
    IF n > Len(s) THEN JsonFail
    ELSE IF s[n] = "]" THEN JsonValue("arr", n + 1, <<>>)
    ELSE ParseElements(s, n)

\* json.scanner _scan_once at index i.
ParseValue(s, i) ==
    IF i > Len(s) THEN JsonFail
    ELSE IF s[i] = "\"" THEN ParseString(s, i)
    ELSE IF s[i] = "{" THEN ParseObject(s, SkipSpace(s, i + 1))
    ELSE IF s[i] = "[" THEN ParseArray(s, SkipSpace(s, i + 1))
    ELSE IF MatchAt(s, <<"n","u","l","l">>, i) THEN JsonValue("null", i + 4, <<>>)
    ELSE IF MatchAt(s, <<"t","r","u","e">>, i) THEN JsonValue("bool", i + 4, <<>>)
    ELSE IF MatchAt(s, <<"f","a","l","s","e">>, i) THEN JsonValue("bool", i + 5, <<>>)
    ELSE NumberOrConstant(s, i, NumberEnd(s, i))

\* The value v must be followed by whitespace only.
WholeValue(s, v) == IF v.ok /\ SkipSpace(s, v.pos) = Len(s) + 1 THEN v ELSE JsonFail

\* json.loads(s) of a text: a value between optional whitespace, and nothing
\* else; ok is FALSE where json.loads raises JSONDecodeError.
json_loads(s) == WholeValue(s, ParseValue(s, SkipSpace(s, 1)))

\* parsed.get(key, "").strip() of one key (app.py:65, 71): raises
\* AttributeError (ok FALSE) when the value under the key is no string.
GetStripped(field) ==
    IF ~field.present THEN [ok |-> TRUE, str |-> <<>>]
    ELSE IF field.isstr THEN [ok |-> TRUE, str |-> Strip(field.str)]
    ELSE [ok |-> FALSE, str |-> <<>>]

ExtractFailed == [ok |-> FALSE, summary |-> <<>>, sentiment |-> <<>>]

\* The return statement of app.py:65 (and 71), given the two fields.
ReturnFields(sm, st) ==
    IF sm.ok /\ st.ok THEN [ok |-> TRUE, summary |-> sm.str, sentiment |-> st.str]
    ELSE ExtractFailed

\* app.py:65 (and 71) on what json.loads gave: ok is FALSE when json.loads
\* raised, when parsed is no dict (it has no .get) or when a field is no
\* string (it has no .strip).
ExtractFields(parsed) ==
    IF parsed.ok /\ parsed.kind = "obj"
    THEN ReturnFields(GetStripped(parsed.summary), GetStripped(parsed.sentiment))
    ELSE ExtractFailed

\* The try body of app.py:64-65 (and 70-71) on a text.
TryExtract(text) == ExtractFields(json_loads(text))

\* Indices of s holding character c.
IndicesOf(s, c) == {i \in 1..Len(s) : s[i] = c}

SetMin(S) == CHOOSE x \in S : \A y \in S : x <= y

SetMax(S) == CHOOSE x \in S : \A y \in S : x >= y

\* The match, given where the braces are.
BraceMatch(s, opens, closes) ==
    IF opens # {} /\ closes # {} /\ SetMax(closes) > SetMin(opens)
    THEN [found |-> TRUE, text |-> SubSeq(s, SetMin(opens), SetMax(closes))]
    ELSE [found |-> FALSE, text |-> <<>>]

\* Variant of SearchBraces: the pattern \{.*?\}, which stops at the first
\* closing brace after the first opening brace.
SearchBraces_NonGreedy(s) ==
    IF \E i \in IndicesOf(s, "}") : i > SetMin(IndicesOf(s, "{") \cup {Len(s) + 1})
    THEN [found |-> TRUE,
          text |-> SubSeq(s, SetMin(IndicesOf(s, "{")),
                          SetMin({i \in IndicesOf(s, "}") : i > SetMin(IndicesOf(s, "{"))}))]
    ELSE [found |-> FALSE, text |-> <<>>]

\* re.search(r"\{.*\}", s, re.DOTALL), app.py:67: from the first opening
\* brace to the last closing brace after it.
SearchBraces(s) == BraceMatch(s, IndicesOf(s, "{"), IndicesOf(s, "}"))

\* app.py:74
RawResult(generated) == [summary |-> Strip(generated), sentiment |-> Unknown]

\* app.py:69-74, given the outcome of the try body on the matched block.
FromBlock(generated, block) ==
    IF block.ok THEN [summary |-> block.summary, sentiment |-> block.sentiment]
    ELSE RawResult(generated)

\* app.py:67-74, given the match m.
FromMatch(generated, m) ==
    IF m.found THEN FromBlock(generated, TryExtract(m.text)) ELSE RawResult(generated)

\* app.py:63-74, given the outcome of the try body on the whole text.
FromWhole(generated, whole) ==
    IF whole.ok THEN [summary |-> whole.summary, sentiment |-> whole.sentiment]
    ELSE FromMatch(generated, SearchBraces(generated))

\* app.py:63-74, the parsing of the generated text.
ParseGenerated(generated) == FromWhole(generated, TryExtract(generated))

-----------------------------------------------------------------------------
(* What the environment supplies to the handler.                           *)

Sessions == {"s1", "s2"}

\* What the text area holds when Analyze is clicked.
Transcripts ==
    { <<" "," ">>,
      <<"."," ","o","k">>,
      <<"T","h","a","n","k","s","!"," ","B","y","e",".">> }

\* What the remote model answers, when it answers with a text.
Responses ==
    { <<"{","\"","s","u","m","m","a","r","y","\"",":","\"","S","\"",",","\"","s","e","n","t","i","m","e","n","t","\"",":","\"","P","o","s","i","t","i","v","e","\"","}">>,
      <<"o","k",":"," ","{","\"","s","e","n","t","i","m","e","n","t","\"",":","\"","M","i","x","e","d","\"","}">>,
      <<"n","o">> }

Outcomes ==
    {[kind |-> "raise", text |-> <<>>], [kind |-> "none", text |-> <<>>]}
        \cup {[kind |-> "text", text |-> t] : t \in Responses}

Keys ==
    {[set |-> FALSE, value |-> <<>>], [set |-> TRUE, value |-> <<>>],
     [set |-> TRUE, value |-> <<"g","s","k">>]}

\* local_fallback and the parsing are functions of their argument alone:
\* their results on the texts above, computed once.
FallbackOf == [t \in Transcripts |-> local_fallback(t)]

ParsedOf == [g \in Responses |-> ParseGenerated(g)]

-----------------------------------------------------------------------------
(* The model client and the remote call.                                   *)

\* `not GROQ_API_KEY` is false: the variable is set and not the empty text.
KeyPresent(key) == key.set /\ key.value # <<>>

\* make_groq_client, app.py:22-28.  ctor is what Groq(api_key=...) does when
\* it is called ("ok" or "raise"); groqCalls counts the calls of Groq.
make_groq_client(avail, key, ctor) ==
    IF ~avail \/ ~KeyPresent(key) THEN [client |-> FALSE, groqCalls |-> 0]
    ELSE IF ctor = "ok" THEN [client |-> TRUE, groqCalls |-> 1]
    ELSE [client |-> FALSE, groqCalls |-> 1]

\* Variant of call_groq_for_json: a request that raised is issued once more.
call_groq_for_json_Retry(outcome) ==
    IF outcome.kind = "raise"
    THEN [raised |-> TRUE, summary |-> <<>>, sentiment |-> <<>>, remoteCalls |-> 2]
    ELSE IF outcome.kind = "none"
    THEN [raised |-> TRUE, summary |-> <<>>, sentiment |-> <<>>, remoteCalls |-> 1]
    ELSE [raised |-> FALSE, summary |-> ParseGenerated(outcome.text).summary,
          sentiment |-> ParseGenerated(outcome.text).sentiment, remoteCalls |-> 1]

\* call_groq_for_json, app.py:45-74.  outcome is what the completion request
\* of line 60 does: it raises, or returns a message whose content is None
\* ("none"), or returns a message with a text.  With no text, json.loads
\* raises TypeError, and so does re.search in the handler of line 66, which
\* nothing in the function catches.
call_groq_for_json(outcome) ==
    IF outcome.kind = "raise"
    THEN [raised |-> TRUE, summary |-> <<>>, sentiment |-> <<>>, remoteCalls |-> 1]
    ELSE IF outcome.kind = "none"
    THEN [raised |-> TRUE, summary |-> <<>>, sentiment |-> <<>>, remoteCalls |-> 1]
    ELSE LET r == ParsedOf[outcome.text]
         IN  [raised |-> FALSE, summary |-> r.summary, sentiment |-> r.sentiment,
              remoteCalls |-> 1]

-----------------------------------------------------------------------------
(* The Analyze handler, app.py:106-142.                                    *)

NoOutcome == [kind |-> "unused", text |-> <<>>]

\* The locals of a run of the handler and what it has put on the page.  ctor
\* and outcome record what the environment did, where the run got that far.
NoRun ==
    [transcript |-> <<>>, ctor |-> "unused", outcome |-> NoOutcome,
     summary |-> <<>>, sentiment |-> <<>>, used |-> "none", warnings |-> <<>>,
     makeCalls |-> 0, groqCalls |-> 0, remoteCalls |-> 0, fallbackCalls |-> 0,
     escaped |-> FALSE, header |-> FALSE, saved |-> FALSE]

\* app.py:113-114, 119-120, 127-128: the result of local_fallback.
WithFallback(r, transcript) ==
    LET f == FallbackOf[transcript]
    IN  [r EXCEPT !.summary = f.summary, !.sentiment = f.sentiment,
                  !.used = "LOCAL_FALLBACK", !.fallbackCalls = @ + 1]

\* Variant of TryGroq: no except clause around the call.
TryGroq_NoExcept(r, transcript, outcome) ==
    LET g  == call_groq_for_json(outcome)
        r1 == [r EXCEPT !.outcome = outcome, !.remoteCalls = @ + g.remoteCalls]
    IN  IF ~g.raised
        THEN [r1 EXCEPT !.summary = g.summary, !.sentiment = g.sentiment, !.used = "GROQ"]
        ELSE [r1 EXCEPT !.escaped = TRUE]

\* app.py:122-128: the remote call and its except clause.
TryGroq(r, transcript, outcome) ==
    LET g  == call_groq_for_json(outcome)
        r1 == [r EXCEPT !.outcome = outcome, !.remoteCalls = @ + g.remoteCalls]
    IN  IF ~g.raised
        THEN [r1 EXCEPT !.summary = g.summary, !.sentiment = g.sentiment, !.used = "GROQ"]
        ELSE WithFallback([r1 EXCEPT !.warnings = Append(@, "call_error")], transcript)

\* Variant of OnlineBranch: no warning when there is no client.
OnlineBranch_Silent(r, avail, key, transcript, ctor, outcome) ==
    LET c  == make_groq_client(avail, key, ctor)
        r1 == [r EXCEPT !.makeCalls = @ + 1, !.groqCalls = @ + c.groqCalls,
                        !.ctor = IF c.groqCalls > 0 THEN ctor ELSE "unused"]
    IN  IF ~c.client THEN WithFallback(r1, transcript)
        ELSE TryGroq(r1, transcript, outcome)

\* app.py:116-128: the branch taken when use_offline is false.
OnlineBranch(r, avail, key, transcript, ctor, outcome) ==
    LET c  == make_groq_client(avail, key, ctor)
        r1 == [r EXCEPT !.makeCalls = @ + 1, !.groqCalls = @ + c.groqCalls,
                        !.ctor = IF c.groqCalls > 0 THEN ctor ELSE "unused"]
    IN  IF ~c.client
        THEN WithFallback([r1 EXCEPT !.warnings = Append(@, "no_client")], transcript)
        ELSE TryGroq(r1, transcript, outcome)

\* Variant of use_offline: `and` in place of `or`.
use_offline_And(avail, key) == (~avail) /\ (~KeyPresent(key))

\* app.py:111
use_offline(avail, key) == (~avail) \/ (~KeyPresent(key))

\* app.py:110-128, for a transcript that is not blank.
Dispatch(avail, key, transcript, ctor, outcome) ==
    LET r == [NoRun EXCEPT !.transcript = transcript]
    IN  IF use_offline(avail, key) THEN WithFallback(r, transcript)
        ELSE OnlineBranch(r, avail, key, transcript, ctor, outcome)

\* app.py:107, `not transcript.strip()`
IsBlank(transcript) == Strip(transcript) = <<>>

\* The columns of call_analysis.csv, app.py:132.
HeaderRow == << <<"T","r","a","n","s","c","r","i","p","t">>, <<"S","u","m","m","a","r","y">>, <<"S","e","n","t","i","m","e","n","t">> >>

\* app.py:132, the row of a run.
DataRow(r) == <<r.transcript, r.summary, r.sentiment>>

NoRet == [summary |-> <<>>, sentiment |-> <<>>]

Init ==
    /\ GROQ_AVAILABLE \in BOOLEAN
    /\ GROQ_API_KEY \in Keys
    /\ pc = [p \in Sessions |-> "idle"]
    /\ run = [p \in Sessions |-> NoRun]
    /\ csv = [exists |-> FALSE, rows |-> <<>>]
    /\ analyses = <<>>
    /\ clicks = 0
    /\ arg = <<>>
    /\ ret = NoRet
    /\ phase = "main"

\* app.py:106-108: Analyze clicked on a blank transcript.
AnalyzeBlank(p) ==
    /\ phase = "main"
    /\ pc[p] = "idle"
    /\ clicks < MaxInvocations
    /\ \E t \in Transcripts :
        /\ IsBlank(t)
        /\ run' = [run EXCEPT ![p] = [NoRun EXCEPT !.transcript = t,
                                                    !.warnings = <<"blank">>]]
    /\ clicks' = clicks + 1
    /\ UNCHANGED <<GROQ_AVAILABLE, GROQ_API_KEY, pc, csv, analyses, arg, ret, phase>>

\* app.py:106-128: Analyze clicked on a transcript, up to the choice of the
\* summary and sentiment.  An exception that leaves the handler ends the run.
AnalyzeTranscript(p) ==
    /\ phase = "main"
    /\ pc[p] = "idle"
    /\ clicks < MaxInvocations
    /\ \E t \in Transcripts, ctor \in {"ok", "raise"}, o \in Outcomes :
        /\ ~IsBlank(t)
        /\ LET r == Dispatch(GROQ_AVAILABLE, GROQ_API_KEY, t, ctor, o)
           IN  /\ run' = [run EXCEPT ![p] = r]
               /\ pc' = [pc EXCEPT ![p] = IF r.escaped THEN "idle" ELSE "exists"]
               /\ analyses' = Append(analyses, [session |-> p, row |-> DataRow(r)])
    /\ clicks' = clicks + 1
    /\ UNCHANGED <<GROQ_AVAILABLE, GROQ_API_KEY, csv, arg, ret, phase>>

\* app.py:133, the argument header=not os.path.exists(csv_path).
CheckExists(p) ==
    /\ pc[p] = "exists"
    /\ run' = [run EXCEPT ![p].header = ~csv.exists]
    /\ pc' = [pc EXCEPT ![p] = "append"]
    /\ UNCHANGED <<GROQ_AVAILABLE, GROQ_API_KEY, csv, analyses, clicks, arg, ret, phase>>

\* app.py:133-142, to_csv in mode "a", then the display of the result.
AppendRow(p) ==
    /\ pc[p] = "append"
    /\ csv' = [exists |-> TRUE,
               rows |-> csv.rows
                        \o (IF run[p].header THEN <<HeaderRow>> ELSE <<>>)
                        \o <<DataRow(run[p])>>]
    /\ run' = [run EXCEPT ![p].saved = TRUE]
    /\ pc' = [pc EXCEPT ![p] = "idle"]
    /\ UNCHANGED <<GROQ_AVAILABLE, GROQ_API_KEY, analyses, clicks, arg, ret, phase>>

Next ==
    \E p \in Sessions :
        \/ AnalyzeBlank(p)
        \/ AnalyzeTranscript(p)
        \/ CheckExists(p)
        \/ AppendRow(p)

Spec == Init /\ [][Next]_vars

-----------------------------------------------------------------------------
(* local_fallback on its own: a transcript is drawn, the function applied. *)

RECURSIVE Concats(_, _)
\* The concatenations of at most n texts of the set pieces.
Concats(pieces, n) ==
    IF n = 0 THEN {<<>>}
    ELSE LET shorter == Concats(pieces, n - 1)
         IN  shorter \cup {a \o b : a \in shorter, b \in pieces}

HeurPieces ==
    { <<"T","h","a","n","k","s">>, <<"n","o","t"," ">>, <<"g","o","o","d">>, <<"R","E","F","U","N","D">>, <<"h","i">>,
      <<"."," ">>, <<"!","\n">>, <<"?">>, <<" ">> }

HeurTranscripts ==
    Concats(HeurPieces, MaxPieces) \cup { <<"a"," ","b"," ","c"," ","d"," ","e"," ","f"," ","g"," ","h"," ","i"," ","j"," ","k"," ","l"," ","m"," ","n">> }

InitFunction ==
    /\ GROQ_AVAILABLE = FALSE
    /\ GROQ_API_KEY = [set |-> FALSE, value |-> <<>>]
    /\ pc = [p \in Sessions |-> "idle"]
    /\ run = [p \in Sessions |-> NoRun]
    /\ csv = [exists |-> FALSE, rows |-> <<>>]
    /\ analyses = <<>>
    /\ clicks = 0
    /\ ret = NoRet
    /\ phase = "in"

InitHeur == InitFunction /\ arg \in HeurTranscripts

\* The call local_fallback(transcript).
RunFallback ==
    /\ phase = "in"
    /\ ret' = local_fallback(arg)
    /\ phase' = "out"
    /\ UNCHANGED <<GROQ_AVAILABLE, GROQ_API_KEY, pc, run, csv, analyses, clicks, arg>>

NextHeur == RunFallback

SpecHeur == InitHeur /\ [][NextHeur]_vars

-----------------------------------------------------------------------------
(* The parsing of call_groq_for_json on its own: a generated text is       *)
(* drawn, lines 63-74 applied.                                             *)

ParsePrefixes == { <<>>, <<" ">>, <<"S","u","r","e",":"," ">>, <<"{">>, <<"[">>, <<"}"," ">> }

ParseBodies ==
    { <<>>,
      <<"{","}">>,
      <<"{","\"","s","u","m","m","a","r","y","\"",":","\"","S","\"",",","\"","s","e","n","t","i","m","e","n","t","\"",":","\"","P","o","s","i","t","i","v","e","\"","}">>,
      <<"{","\"","s","u","m","m","a","r","y","\"",":"," ","\""," ","A"," ","b"," ","\"",","," ","\"","s","e","n","t","i","m","e","n","t","\"",":"," ","\"","M","i","x","e","d","\"","}">>,
      <<"{","\"","s","u","m","m","a","r","y","\"",":","\"","S","\"","}">>,
      <<"{","\"","s","e","n","t","i","m","e","n","t","\"",":","\"","N","e","g","a","t","i","v","e","\"","}">>,
      <<"{","\"","s","u","m","m","a","r","y","\"",":","5",",","\"","s","e","n","t","i","m","e","n","t","\"",":","\"","P","o","s","i","t","i","v","e","\"","}">>,
      <<"{","\"","s","u","m","m","a","r","y","\"",":","n","u","l","l","}">>,
      <<"{","\"","s","u","m","m","a","r","y","\"",":","\"","a","\"",",","\"","s","u","m","m","a","r","y","\"",":","\"","b","\"","}">>,
      <<"{","\"","s","u","m","m","a","r","y","\"",":","{","\"","s","u","m","m","a","r","y","\"",":","\"","i","n","\"","}",",","\"","s","e","n","t","i","m","e","n","t","\"",":","\"","x","\"","}">>,
      <<"{","\"","o","t","h","e","r","\"",":","[","1",",","{","\"","a","\"",":","\"","}","\"","}","]",",","\"","s","u","m","m","a","r","y","\"",":","\"","S","\"","}">>,
      <<"{","\"","s","u","m","m","a","r","y","\"",":","\"","a","\n","b","\"","}">>,
      <<"{","\"","s","u","m","m","a","r","y","\"",":","\"","S","\"",",","}">>,
      <<"{","\"","s","u","m","m","a","r","y","\"",":","\"","S","\"","}"," ","{","\"","s","e","n","t","i","m","e","n","t","\"",":","\"","P","\"","}">>,
      <<"[","{","\"","s","u","m","m","a","r","y","\"",":","\"","S","\"","}","]">>,
      <<"[","1","]">>,
      <<"5">>,
      <<"\"","S","\"">>,
      <<"n","u","l","l">>,
      <<"I"," ","c","a","n","n","o","t"," ","h","e","l","p"," ","w","i","t","h"," ","t","h","a","t",".">> }

ParseSuffixes == { <<>>, <<"\n">>, <<" ","t","h","a","n","k","s">>, <<"}">>, <<" ","{">> }

Generated == {a \o b \o c : a \in ParsePrefixes, b \in ParseBodies, c \in ParseSuffixes}

InitParse == InitFunction /\ arg \in Generated

\* Lines 63-74 of call_groq_for_json on the generated text.
RunParse ==
    /\ phase = "in"
    /\ ret' = ParseGenerated(arg)
    /\ phase' = "out"
    /\ UNCHANGED <<GROQ_AVAILABLE, GROQ_API_KEY, pc, run, csv, analyses, clicks, arg>>

NextParse == RunParse

SpecParse == InitParse /\ [][NextParse]_vars

-----------------------------------------------------------------------------
(* Properties of the Analyze handler, stated for Spec.                     *)

\* Session p holds the run of an analysis: the handler got past line 107.
Analyzed(p) == ~IsBlank(run[p].transcript)

FourSentiments == {Positive, Neutral, Negative, Unknown}

\* Groq(...) raised, the completion request raised, or it returned no text.
FailureIn(r) == r.ctor = "raise" \/ r.outcome.kind \in {"raise", "none"}

\* Capability and credential are both there.
Online == GROQ_AVAILABLE /\ GROQ_API_KEY.set /\ GROQ_API_KEY.value # <<>>

\* C1: the dispatch is total.  Every analysis of a non-blank transcript ends
\* with a summary, a sentiment and a source GROQ or LOCAL_FALLBACK, and goes
\* on to the save; no exception leaves the handler; and when the client
\* construction, the remote call or the parsing raised, the result is the
\* one of local_fallback.
C1_DispatchTotal ==
    \A p \in Sessions :
        Analyzed(p) =>
            /\ ~run[p].escaped
            /\ run[p].used \in {"GROQ", "LOCAL_FALLBACK"}
            /\ pc[p] = "idle" => run[p].saved
            /\ FailureIn(run[p]) =>
                /\ run[p].used = "LOCAL_FALLBACK"
                /\ [summary |-> run[p].summary, sentiment |-> run[p].sentiment]
                       = local_fallback(run[p].transcript)

\* C1 witness: a run whose remote call returned no text was saved with the
\* heuristic result, and so was one whose remote call raised.
C1_Witness ==
    /\ run["s1"].outcome.kind = "none" /\ run["s1"].saved
    /\ run["s1"].used = "LOCAL_FALLBACK"
    /\ run["s2"].outcome.kind = "raise" /\ run["s2"].saved
    /\ run["s2"].used = "LOCAL_FALLBACK"

\* C2: the summary of every analysis of a non-blank transcript is not empty.
C2_SummaryNonEmpty ==
    \A p \in Sessions : Analyzed(p) => run[p].summary # <<>>

ModelSentiment(text) ==
    LET whole == TryExtract(text)
        m     == SearchBraces(text)
        block == TryExtract(m.text)
    IN  IF whole.ok THEN whole.sentiment
        ELSE IF m.found /\ block.ok THEN block.sentiment
        ELSE Unknown

C4_OfflineNeverBuildsClient ==
    (~GROQ_AVAILABLE \/ ~GROQ_API_KEY.set \/ GROQ_API_KEY.value = <<>>) =>
        /\ \A ctor \in {"ok", "raise"} :
               make_groq_client(GROQ_AVAILABLE, GROQ_API_KEY, ctor)
                   = [client |-> FALSE, groqCalls |-> 0]
        /\ \A p \in Sessions :
               Analyzed(p) =>
                   /\ run[p].makeCalls = 0
                   /\ run[p].groqCalls = 0
                   /\ run[p].remoteCalls = 0
                   /\ run[p].warnings = <<>>
                   /\ run[p].used = "LOCAL_FALLBACK"
                   /\ [summary |-> run[p].summary, sentiment |-> run[p].sentiment]
                          = local_fallback(run[p].transcript)

\* C4 witness: an analysis saved with the capability missing and a
\* credential configured.
C4_Witness ==
    /\ ~GROQ_AVAILABLE
    /\ GROQ_API_KEY.set /\ GROQ_API_KEY.value # <<>>
    /\ \E p \in Sessions : Analyzed(p) /\ run[p].saved

\* C5, as claimed: an analysis shows a warning exactly when its remote call
\* raised.
C5_WarningIffCallRaised ==
    \A p \in Sessions :
        Analyzed(p) => ((run[p].warnings # <<>>) <=> (run[p].outcome.kind = "raise"))

\* C5, amended: an analysis shows exactly one warning when, with capability
\* and credential present, the client construction gave no client or
\* call_groq_for_json raised (the request raised, or its message had no
\* text); it shows none when capability or credential is missing and none
\* when the model answered with a text, parseable or not.
C5_WarningCases ==
    \A p \in Sessions :
        Analyzed(p) =>
            run[p].warnings =
                IF Online /\ run[p].ctor = "raise" THEN <<"no_client">>
                ELSE IF Online /\ run[p].outcome.kind \in {"raise", "none"}
                     THEN <<"call_error">>
                ELSE <<>>

\* C5 witness: one saved analysis warned that no client was available,
\* another went through an unparseable answer without a warning.
C5_Witness ==
    /\ run["s1"].warnings = <<"no_client">> /\ run["s1"].saved
    /\ run["s2"].used = "GROQ" /\ run["s2"].saved
    /\ run["s2"].sentiment = Unknown /\ run["s2"].warnings = <<>>

\* C9: once no handler is running, the file is there exactly when a
\* non-blank transcript was analysed, and it holds one header row followed
\* by one data row per analysis, in invocation order.
C9_OneHeaderRowsInOrder ==
    (\A p \in Sessions : pc[p] = "idle") =>
        /\ csv.exists <=> analyses # <<>>
        /\ csv.rows = IF analyses = <<>> THEN <<>>
                      ELSE <<HeaderRow>> \o [i \in 1..Len(analyses) |-> analyses[i].row]

\* C10: the dispatch is single-shot.  An analysis issues the remote request
\* at most once, runs local_fallback at most once, and runs it exactly when
\* the request was not issued or call_groq_for_json raised; its source is
\* GROQ exactly when a client was constructed and call_groq_for_json
\* returned, and then summary and sentiment are what the parsing of the
\* generated text gives.
C10_SingleShot ==
    \A p \in Sessions :
        Analyzed(p) =>
            /\ run[p].remoteCalls <= 1
            /\ run[p].fallbackCalls <= 1
            /\ (run[p].fallbackCalls = 1) <=>
                   (run[p].remoteCalls = 0 \/ run[p].outcome.kind \in {"raise", "none"})
            /\ (run[p].used = "GROQ") <=>
                   (run[p].ctor = "ok" /\ run[p].outcome.kind = "text")
            /\ run[p].used = "GROQ" =>
                   /\ run[p].remoteCalls = 1
                   /\ run[p].fallbackCalls = 0
                   /\ [summary |-> run[p].summary, sentiment |-> run[p].sentiment]
                          = ParseGenerated(run[p].outcome.text)

\* C10 witness: one saved analysis took the model path with one request, and
\* another fell back after its one request raised.
C10_Witness ==
    /\ run["s1"].used = "GROQ" /\ run["s1"].saved /\ run["s1"].remoteCalls = 1
    /\ run["s2"].outcome.kind = "raise" /\ run["s2"].saved
    /\ run["s2"].remoteCalls = 1 /\ run["s2"].fallbackCalls = 1

-----------------------------------------------------------------------------
(* Properties of the parsing, stated for SpecParse.                        *)

\* The block from the first opening brace to the last closing brace of s.
HasBlock(s) ==
    \E i, j \in 1..Len(s) :
        i < j /\ s[i] = "{" /\ s[j] = "}" /\ \A k \in 1..(i - 1) : s[k] # "{"

GreedyBlock(s) ==
    LET i == CHOOSE x \in 1..Len(s) : s[x] = "{" /\ \A k \in 1..(x - 1) : s[k] # "{"
        j == CHOOSE y \in 1..Len(s) : s[y] = "}" /\ \A k \in (y + 1)..Len(s) : s[k] # "}"
    IN  SubSeq(s, i, j)

\* The trimmed field of a parsed value, the empty text when it is absent.
TrimmedField(f) == IF f.present THEN Strip(f.str) ELSE <<>>

TrimmedFields(v) ==
    [summary |-> TrimmedField(v.summary), sentiment |-> TrimmedField(v.sentiment)]

\* The three steps as claimed: a step applies whenever its text strictly
\* parses.
ClaimedParse(s) ==
    IF json_loads(s).ok THEN TrimmedFields(json_loads(s))
    ELSE IF HasBlock(s) /\ json_loads(GreedyBlock(s)).ok
         THEN TrimmedFields(json_loads(GreedyBlock(s)))
    ELSE [summary |-> Strip(s), sentiment |-> Unknown]

\* A parsed value whose fields can be returned: an object whose "summary"
\* and "sentiment" members, where present, are strings.
Usable(v) ==
    /\ v.ok
    /\ v.kind = "obj"
    /\ v.summary.present => v.summary.isstr
    /\ v.sentiment.present => v.sentiment.isstr

\* The three steps as amended: a step applies when its text strictly parses
\* to a usable object.
AmendedParse(s) ==
    IF Usable(json_loads(s)) THEN TrimmedFields(json_loads(s))
    ELSE IF HasBlock(s) /\ Usable(json_loads(GreedyBlock(s)))
         THEN TrimmedFields(json_loads(GreedyBlock(s)))
    ELSE [summary |-> Strip(s), sentiment |-> Unknown]

\* C6, as claimed: the parsing returns the fields of the whole text whenever
\* it strictly parses, else those of the greedy brace block if that strictly
\* parses, and (raw trimmed, Unknown) only if both fail to parse.
C6_ThreeSteps == phase = "out" => ret = ClaimedParse(arg)

\* C6, amended: the parsing returns the trimmed fields (absent: empty) of
\* the whole text when it strictly parses to an object whose summary and
\* sentiment, where present, are strings; else those of the greedy brace
\* block when that parses to such an object; else (raw trimmed, Unknown).
C6_ThreeStepsAmended == phase = "out" => ret = AmendedParse(arg)

\* C6 witness: the whole text strictly parses but is no object, and the
\* result is taken from its brace block, which is one.
C6_Witness ==
    /\ phase = "out"
    /\ json_loads(arg).ok /\ ~Usable(json_loads(arg))
    /\ HasBlock(arg) /\ Usable(json_loads(GreedyBlock(arg)))
    /\ GreedyBlock(arg) # arg
    /\ ret = TrimmedFields(json_loads(GreedyBlock(arg)))
    /\ ret.summary # <<>>

-----------------------------------------------------------------------------
(* Properties of local_fallback, stated for SpecHeur.                      *)

\* s holds a sentence boundary: a terminator followed by whitespace.
HasBoundary(s) ==
    \E i \in 1..(Len(s) - 1) : s[i] \in {".", "?", "!"} /\ IsSpace(s[i + 1])

\* The first text of the sequence that is not blank, the empty text when
\* all are.
RECURSIVE FirstNonEmpty(_)
FirstNonEmpty(pieces) ==
    IF pieces = <<>> THEN <<>>
    ELSE IF ~IsBlank(Head(pieces)) THEN Head(pieces)
    ELSE FirstNonEmpty(Tail(pieces))

\* The summary as claimed.
ClaimedSummary(transcript) ==
    IF HasBoundary(Strip(transcript))
    THEN Strip(FirstNonEmpty(ReSplit(Strip(transcript))))
    ELSE JoinSpace(Slice(PySplit(transcript), 12)) \o <<".",".",".">>

\* C7: the summary of local_fallback is the first non-empty sentence of the
\* transcript, trimmed, and with no sentence boundary in the transcript it
\* is the first 12 tokens joined by single spaces, then an ellipsis.
C7_FirstSentenceOrExcerpt ==
    (phase = "out" /\ ~IsBlank(arg)) => ret.summary = ClaimedSummary(arg)

\* Number of indices of t at which w occurs, overlapping ones included.
Occurrences(t, w) == Cardinality({i \in 1..Len(t) : MatchAt(t, w, i)})

RECURSIVE SumOccurrences(_, _)
SumOccurrences(t, words) ==
    IF words = <<>> THEN 0
    ELSE Occurrences(t, Head(words)) + SumOccurrences(t, Tail(words))

ClaimedNeg(t) ==
    SumOccurrences(Lower(t),
        << <<"n","o","t">>, <<"f","a","i","l","e","d">>, <<"f","r","u","s","t","r","a","t">>, <<"a","n","g","r","y">>, <<"c","h","a","r","g","e","d">>,
           <<"r","e","f","u","n","d">>, <<"p","r","o","b","l","e","m">>, <<"i","s","s","u","e">>, <<"c","o","m","p","l","a","i","n">>, <<"d","e","l","a","y">> >>)

ClaimedPos(t) ==
    SumOccurrences(Lower(t),
        << <<"t","h","a","n","k">>, <<"t","h","a","n","k","s">>, <<"g","r","e","a","t">>, <<"h","a","p","p","y">>, <<"g","o","o","d">>, <<"s","a","t","i","s","f","i","e","d">> >>)

\* C8: the sentiment of local_fallback is Negative when neg > pos, Positive
\* when pos > neg and Neutral when they are equal, neg and pos being the
\* numbers of occurrences of the negative and of the positive terms in the
\* lower-cased transcript, a thanks counting for thank and for thanks.
C8_SentimentByCounts ==
    phase = "out" =>
        ret.sentiment =
            IF ClaimedNeg(arg) > ClaimedPos(arg) THEN Negative
            ELSE IF ClaimedPos(arg) > ClaimedNeg(arg) THEN Positive
            ELSE Neutral

\* C8 witness: a transcript with an upper-case thanks and as many negative
\* terms as thanks, Positive only because each thanks counts twice.
C8_Witness ==
    /\ phase = "out"
    /\ Occurrences(arg, <<"T","h","a","n","k","s">>) >= 1
    /\ ClaimedNeg(arg) = Occurrences(arg, <<"T","h","a","n","k","s">>)
    /\ ClaimedPos(arg) = 2 * Occurrences(arg, <<"T","h","a","n","k","s">>)
    /\ ret.sentiment = Positive

=============================================================================
